---- MODULE Spec2Model ----
(***************************************************************************)
(* The file-backed Employee Store of crud_with_data_storage/main.py: an    *)
(* in-memory list employees_db mirrored to the JSON document               *)
(* employees_db.json, served by five request handlers.                     *)
(*                                                                         *)
(* Spec      one handler runs to completion before the next begins.        *)
(* SpecRace  two add_employee calls served by a pool of `workers` threads, *)
(*           stepping through check / append / persist.                    *)
(***************************************************************************)
EXTENDS Integers, Sequences, FiniteSets, TLC

\* ------------------------------------------------------------------ bounds
MaxId == 3          \* employee ids are drawn from 1..MaxId
MaxLen == 3         \* employees_db is not grown beyond MaxLen records
MaxInitLen == 2     \* the document found at start holds at most MaxInitLen records
MaxFaults == 1      \* save_employees fails at most MaxFaults times in a behaviour
MaxMinutes == 35    \* the clock is followed minute by minute for MaxMinutes minutes

Names == {"Alice", "Bob"}

\* ------------------------------------------------------------ data model
Ids == 1..MaxId

\* models.Employee, restricted to the fields the store reads: id and name.
Employee == [id : Ids, name : Names]

\* A JSON scalar as json.dump writes it and json.load reads it back.
JsonNumber(n) == [type |-> "number", num |-> n, str |-> ""]
JsonString(s) == [type |-> "string", num |-> 0, str |-> s]

\* emp.dict(): the object {"id": ..., "name": ...}, members in field order.
EmpDict(emp) == << <<"id", JsonNumber(emp.id)>>, <<"name", JsonString(emp.name)>> >>

\* Value of member `key` of a JSON object.
Member(obj, key) == obj[CHOOSE i \in 1..Len(obj) : obj[i][1] = key][2]

\* Employee(**emp): the model object built from a JSON object by keyword.
EmployeeFromDict(obj) == [id |-> Member(obj, "id").num, name |-> Member(obj, "name").str]

\* The state of DB_PATH: no file, or a file holding a JSON array.
NoFile == [exists |-> FALSE, data |-> <<>>]

\* load_employees reading the array back to front.
load_employees_rev(d) ==
    IF ~d.exists THEN <<>>
    ELSE [i \in 1..Len(d.data) |-> EmployeeFromDict(d.data[Len(d.data) + 1 - i])]

\* load_employees(): [] when the file is missing, else one Employee per element.
load_employees(d) == IF ~d.exists THEN <<>> ELSE [i \in 1..Len(d.data) |-> EmployeeFromDict(d.data[i])]

\* save_employees(employees): the file is overwritten with the whole list.
save_employees(employees) == [exists |-> TRUE, data |-> [i \in 1..Len(employees) |-> EmpDict(employees[i])]]

\* Sequences over S of length at most n.
SeqsUpTo(S, n) == UNION {[1..k -> S] : k \in 0..n}

\* No two positions of db carry the same id.
UniqueIds(db) == \A i, j \in 1..Len(db) : db[i].id = db[j].id => i = j

\* The ids carried by the records of db.
IdsOf(db) == {db[i].id : i \in 1..Len(db)}

\* Index of the first record of db whose id is emp_id (the for/enumerate scan); 0 if none.
FirstIndex(db, emp_id) ==
    IF emp_id \in IdsOf(db)
    THEN CHOOSE i \in 1..Len(db) : db[i].id = emp_id /\ \A j \in 1..(i-1) : db[j].id # emp_id
    ELSE 0

\* del db[index]
DelAt(db, index) == [i \in 1..(Len(db)-1) |-> IF i < index THEN db[i] ELSE db[i+1]]

VARIABLES
    employees_db,   \* the in-memory list
    disk,           \* the file at DB_PATH
    response,       \* the last response sent (or the start of the process)
    saved,          \* whether the last handler called save_employees
    created,        \* records passed to add_employee since an empty start
    pure,           \* the store started empty and was only ever created into, with distinct ids
    everMutated,    \* some mutation has succeeded
    workers,        \* size of the thread pool serving requests
    th,             \* the add_employee call each pool thread is serving
    torn,           \* the file at DB_PATH is the remains of a write that failed part-way
    faults,         \* how many calls of save_employees have failed
    clock,          \* datetime.now(timezone.utc), in minutes
    token,          \* the last token made by create_access_token
    verified        \* the outcome of the last verify_token

authVars == <<clock, token, verified>>
faultVars == <<torn, faults>>
storeVars == <<employees_db, disk, response, saved, created, pure, everMutated, workers, th,
               faultVars>>

vars == <<employees_db, disk, response, saved, created, pure, everMutated, workers, th, torn,
          faults, clock, token, verified>>

NoReq == <<>>

Resp(op, status, emp_id, req, body, detail) ==
    [op |-> op, status |-> status, emp_id |-> emp_id, req |-> req, body |-> body, detail |-> detail]

\* ------------------------------------------------------------- handlers
\* Each handler is a function of the list and its arguments, giving the list
\* afterwards, whether save_employees was called, and the response.
Outcome(db, save, status, body, detail) ==
    [db |-> db, save |-> save, status |-> status, body |-> body, detail |-> detail]

get_employees(db) == Outcome(db, FALSE, 200, db, "")

\* get_employee using emp_id as the position in the list.
get_employee_byindex(db, emp_id) ==
    IF emp_id \in IdsOf(db) /\ emp_id <= Len(db)
    THEN Outcome(db, FALSE, 200, <<db[emp_id]>>, "")
    ELSE Outcome(db, FALSE, 404, <<>>, "Employee Not Found")

get_employee(db, emp_id) ==
    LET index == FirstIndex(db, emp_id) IN
    IF index # 0
    THEN Outcome(db, FALSE, 200, <<db[index]>>, "")
    ELSE Outcome(db, FALSE, 404, <<>>, "Employee Not Found")

\* A uniqueness scan that never finds the id.
IdExists_never(db, id) == FALSE

\* The uniqueness scan of add_employee: some record of db carries id.
IdExists(db, id) == \E i \in 1..Len(db) : db[i].id = id

\* add_employee without the uniqueness scan.
add_employee_nocheck(db, new_emp) == Outcome(Append(db, new_emp), TRUE, 200, <<new_emp>>, "")

\* add_employee inserting at the front of the list.
add_employee_front(db, new_emp) ==
    IF \E i \in 1..Len(db) : db[i].id = new_emp.id
    THEN Outcome(db, FALSE, 400, <<>>, "Employee already exists")
    ELSE Outcome(<<new_emp>> \o db, TRUE, 200, <<new_emp>>, "")

add_employee(db, new_emp) ==
    IF IdExists(db, new_emp.id)
    THEN Outcome(db, FALSE, 400, <<>>, "Employee already exists")
    ELSE Outcome(Append(db, new_emp), TRUE, 200, <<new_emp>>, "")

\* update_employee without the call of save_employees.
update_employee_nosave(db, emp_id, updated_employee) ==
    LET index == FirstIndex(db, emp_id) IN
    IF index # 0
    THEN Outcome([db EXCEPT ![index] = updated_employee], FALSE, 200, <<updated_employee>>, "")
    ELSE Outcome(db, FALSE, 404, <<>>, "Employee Not Found")

\* update_employee storing the record when the id is absent.
update_employee_upsert(db, emp_id, updated_employee) ==
    LET index == FirstIndex(db, emp_id) IN
    IF index # 0
    THEN Outcome([db EXCEPT ![index] = updated_employee], TRUE, 200, <<updated_employee>>, "")
    ELSE Outcome(Append(db, updated_employee), TRUE, 200, <<updated_employee>>, "")

\* update_employee removing the old record and appending the new one.
update_employee_move(db, emp_id, updated_employee) ==
    LET index == FirstIndex(db, emp_id) IN
    IF index # 0
    THEN Outcome(Append(DelAt(db, index), updated_employee), TRUE, 200, <<updated_employee>>, "")
    ELSE Outcome(db, FALSE, 404, <<>>, "Employee Not Found")

update_employee(db, emp_id, updated_employee) ==
    LET index == FirstIndex(db, emp_id) IN
    IF index # 0
    THEN Outcome([db EXCEPT ![index] = updated_employee], TRUE, 200, <<updated_employee>>, "")
    ELSE Outcome(db, FALSE, 404, <<>>, "Employee Not Found")

\* delete_employee removing every record that carries the id.
delete_employee_all(db, emp_id) ==
    IF emp_id \in IdsOf(db)
    THEN Outcome(SelectSeq(db, LAMBDA e : e.id # emp_id), TRUE, 200, <<>>,
                 "Employee deleted successfully")
    ELSE Outcome(db, FALSE, 404, <<>>, "Employee Not Found")

delete_employee(db, emp_id) ==
    LET index == FirstIndex(db, emp_id) IN
    IF index # 0
    THEN Outcome(DelAt(db, index), TRUE, 200, <<>>, "Employee deleted successfully")
    ELSE Outcome(db, FALSE, 404, <<>>, "Employee Not Found")

\* ----------------------------------------------------------------- Init
IdleThread == [pc |-> "idle", emp |-> NoReq, status |-> 0]
Threads == {1, 2}

\* Documents a previous run of the store can have left: distinct ids.
InitDisks == {NoFile} \cup
    {save_employees(s) : s \in {q \in SeqsUpTo(Employee, MaxInitLen) : UniqueIds(q)}}

InitStore ==
    /\ disk \in InitDisks
    /\ employees_db = load_employees(disk)
    /\ response = Resp("start", 0, 0, NoReq, <<>>, "")
    /\ saved = FALSE
    /\ created = <<>>
    /\ pure = (employees_db = <<>>)
    /\ everMutated = FALSE
    /\ th = [t \in Threads |-> IdleThread]

\* No token has been made or verified yet.
NoToken == [made |-> FALSE, exp |-> 0, issued |-> 0, hasSub |-> FALSE]
NoVerify == [status |-> 0, username |-> "", detail |-> ""]

InitAuthVars == clock = 0 /\ token = NoToken /\ verified = NoVerify

NoFaults == torn = FALSE /\ faults = 0

Init == InitStore /\ workers = 1 /\ NoFaults /\ InitAuthVars

\* -------------------------------------------------------------- actions
\* Effect of one handler run to completion on the store and the mirror.
Serve(op, emp_id, req, out) ==
    /\ employees_db' = out.db
    /\ disk' = IF out.save THEN save_employees(out.db) ELSE disk
    /\ saved' = out.save
    /\ response' = Resp(op, out.status, emp_id, req, out.body, out.detail)
    /\ everMutated' = (everMutated \/ out.save)
    /\ torn' = (torn /\ ~out.save)
    /\ UNCHANGED <<workers, th, faults, authVars>>

List ==
    /\ Serve("list", 0, NoReq, get_employees(employees_db))
    /\ UNCHANGED <<created, pure>>

Get ==
    \E emp_id \in Ids :
        /\ Serve("get", emp_id, NoReq, get_employee(employees_db, emp_id))
        /\ UNCHANGED <<created, pure>>

Create ==
    \E new_emp \in Employee :
        /\ Len(employees_db) < MaxLen \/ new_emp.id \in IdsOf(employees_db)
        /\ Serve("create", new_emp.id, <<new_emp>>, add_employee(employees_db, new_emp))
        /\ pure' = (pure /\ new_emp.id \notin IdsOf(created))
        /\ created' = IF pure' THEN Append(created, new_emp) ELSE <<>>

Update ==
    \E emp_id \in Ids, updated_employee \in Employee :
        /\ Serve("update", emp_id, <<updated_employee>>,
                 update_employee(employees_db, emp_id, updated_employee))
        /\ pure' = FALSE
        /\ created' = <<>>

Delete ==
    \E emp_id \in Ids :
        /\ Serve("delete", emp_id, NoReq, delete_employee(employees_db, emp_id))
        /\ pure' = FALSE
        /\ created' = <<>>

\* The process is stopped and started again: module import runs load_employees().
Restart ==
    /\ ~torn
    /\ employees_db' = load_employees(disk)
    /\ response' = Resp("start", 0, 0, NoReq, <<>>, "")
    /\ saved' = FALSE
    /\ created' = <<>>
    /\ pure' = (employees_db' = <<>>)
    /\ UNCHANGED <<disk, everMutated, workers, th, faultVars, authVars>>

Next == List \/ Get \/ Create \/ Update \/ Delete \/ Restart

Spec == Init /\ [][Next]_vars

\* ------------------------------------------- add_employee, step by step
\* FastAPI serves a plain `def` endpoint on a pool thread; with more than one
\* worker two calls can interleave between the scan, the append and the save.
Active == {t \in Threads : th[t].pc # "idle"}

Begin(t) ==
    /\ th[t].pc = "idle"
    /\ Cardinality(Active) < workers
    /\ Len(employees_db) + Cardinality(Active) < MaxLen
    /\ \E new_emp \in Employee :
           th' = [th EXCEPT ![t] = [pc |-> "check", emp |-> <<new_emp>>, status |-> 0]]
    /\ UNCHANGED <<employees_db, disk, response, saved, created, pure, everMutated, workers,
                   faultVars, authVars>>

Check(t) ==
    /\ th[t].pc = "check"
    /\ th' = IF IdExists(employees_db, th[t].emp[1].id)
             THEN [th EXCEPT ![t].pc = "idle", ![t].status = 400]
             ELSE [th EXCEPT ![t].pc = "append"]
    /\ UNCHANGED <<employees_db, disk, response, saved, created, pure, everMutated, workers,
                   faultVars, authVars>>

AppendStep(t) ==
    /\ th[t].pc = "append"
    /\ employees_db' = Append(employees_db, th[t].emp[1])
    /\ th' = [th EXCEPT ![t].pc = "persist"]
    /\ UNCHANGED <<disk, response, saved, created, pure, everMutated, workers, faultVars, authVars>>

Persist(t) ==
    /\ th[t].pc = "persist"
    /\ disk' = save_employees(employees_db)
    /\ th' = [th EXCEPT ![t].pc = "idle", ![t].status = 200]
    /\ torn' = FALSE
    /\ UNCHANGED <<employees_db, response, saved, created, pure, everMutated, workers, faults,
                   authVars>>

InitRace == InitStore /\ workers \in {1, 2} /\ NoFaults /\ InitAuthVars

NextRace == \E t \in Threads : Begin(t) \/ Check(t) \/ AppendStep(t) \/ Persist(t)

SpecRace == InitRace /\ [][NextRace]_vars

\* ------------------------------------------------ save_employees failing
\* save_employees can raise: open(DB_PATH, "w") fails and the file is left as
\* it was, or the write fails after open has truncated the file, leaving a
\* file that holds no JSON document.  The handler has already changed
\* employees_db, catches nothing, and the caller gets a 500.
ServeFail(op, emp_id, req, out) ==
    /\ out.save
    /\ faults < MaxFaults
    /\ faults' = faults + 1
    /\ employees_db' = out.db
    /\ \/ disk' = disk /\ torn' = torn
       \/ disk' = [exists |-> TRUE, data |-> <<>>] /\ torn' = TRUE
    /\ saved' = TRUE
    /\ response' = Resp(op, 500, emp_id, req, <<>>, "Internal Server Error")
    /\ pure' = FALSE
    /\ created' = <<>>
    /\ UNCHANGED <<everMutated, workers, th, authVars>>

CreateFail ==
    \E new_emp \in Employee :
        /\ Len(employees_db) < MaxLen
        /\ ServeFail("create", new_emp.id, <<new_emp>>, add_employee(employees_db, new_emp))

UpdateFail ==
    \E emp_id \in Ids, updated_employee \in Employee :
        /\ emp_id \in IdsOf(employees_db)
        /\ ServeFail("update", emp_id, <<updated_employee>>,
                     update_employee(employees_db, emp_id, updated_employee))

DeleteFail ==
    \E emp_id \in Ids :
        /\ emp_id \in IdsOf(employees_db)
        /\ ServeFail("delete", emp_id, NoReq, delete_employee(employees_db, emp_id))

NextFault == Next \/ CreateFail \/ UpdateFail \/ DeleteFail

SpecFault == Init /\ [][NextFault]_vars

\* ------------------------------------------------- JWT Authentication/auth.py
ACCESS_TOKEN_EXPIRE_MINUTES == 30
MinutesPerDay == 1440

\* timedelta(n): the first positional parameter of timedelta is days.
timedelta(n) == n * MinutesPerDay

\* create_access_token(data) at time now; data carries "sub" or not.  The
\* time of issue is kept beside the token, it is not a claim of the payload.
create_access_token(hasSub, now) ==
    [made |-> TRUE, exp |-> now + timedelta(ACCESS_TOKEN_EXPIRE_MINUTES), issued |-> now,
     hasSub |-> hasSub]

\* verify_token(token) at time now: claims.validate() rejects a token whose
\* exp is in the past, and a token without "sub" is refused.
verify_token(tok, now) ==
    IF tok.exp < now THEN [status |-> 401, username |-> "", detail |-> "Invalid token"]
    ELSE IF ~tok.hasSub THEN [status |-> 401, username |-> "", detail |-> "Invalid token"]
    ELSE [status |-> 200, username |-> "johndoe", detail |-> ""]

MaxTime == timedelta(ACCESS_TOKEN_EXPIRE_MINUTES) + MaxMinutes

CreateToken ==
    /\ \E hasSub \in BOOLEAN : token' = create_access_token(hasSub, clock)
    /\ verified' = NoVerify
    /\ UNCHANGED <<clock, storeVars>>

VerifyToken ==
    /\ token.made
    /\ verified' = verify_token(token, clock)
    /\ UNCHANGED <<clock, token, storeVars>>

\* Time passes: one minute, or the span of timedelta(ACCESS_TOKEN_EXPIRE_MINUTES).
Tick ==
    /\ \E d \in {1, timedelta(ACCESS_TOKEN_EXPIRE_MINUTES)} :
           /\ clock + d <= MaxTime
           /\ d = 1 => (clock % timedelta(ACCESS_TOKEN_EXPIRE_MINUTES)) < MaxMinutes
           /\ clock' = clock + d
    /\ verified' = NoVerify
    /\ UNCHANGED <<token, storeVars>>

InitAuth == Init /\ disk = NoFile

NextAuth == CreateToken \/ VerifyToken \/ Tick

SpecAuth == InitAuth /\ [][NextAuth]_vars

\* ---------------------------------------------------------------- claims
Mutations == {"create", "update", "delete"}

\* C1: the in-memory collection never holds two records with the same id,
\* whatever sequence of List, Get, Create, Update and Delete is served.
C1_UniqueIds == UniqueIds(employees_db)

\* C2: whenever a Create, Update or Delete has just answered 200, it has called
\* save_employees, the document exists and is the serialisation of the whole
\* list, and load_employees of it gives back employees_db, in order.
C2_RoundTrip ==
    (response.op \in Mutations /\ response.status = 200) =>
        /\ saved
        /\ disk.exists
        /\ Len(disk.data) = Len(employees_db)
        /\ load_employees(disk) = employees_db

C2_Witness ==
    /\ response.op = "update" /\ response.status = 200
    /\ Len(employees_db) >= 2
    /\ employees_db[1] # employees_db[2]

\* C3: a Create whose record id is already carried by a record of the list
\* answers 400, and leaves the list and the document as they were, without
\* calling save_employees.
C3_CreateConflict ==
    [][(response'.op = "create" /\ response'.emp_id \in IdsOf(employees_db)) =>
          /\ response'.status = 400
          /\ response'.body = <<>>
          /\ employees_db' = employees_db
          /\ disk' = disk
          /\ ~saved']_vars

C3_Witness ==
    /\ response.op = "create" /\ response.status = 400
    /\ \E i \in 1..Len(employees_db) :
          /\ employees_db[i].id = response.req[1].id
          /\ employees_db[i] # response.req[1]

\* C4: Get, Update (with any record) and Delete of an id that no record carries
\* answer 404 and leave the list and the document as they were.
C4_NotFound ==
    [][(response'.op \in {"get", "update", "delete"}
          /\ response'.emp_id \notin IdsOf(employees_db)) =>
          /\ response'.status = 404
          /\ employees_db' = employees_db
          /\ disk' = disk
          /\ ~saved']_vars

C4_Witness ==
    /\ response.op = "update" /\ response.status = 404
    /\ employees_db # <<>>
    /\ response.req[1].id \in IdsOf(employees_db)

\* C5: from an empty store, after Create calls with pairwise distinct ids (and
\* reads), the list is exactly the created records in creation order; the last
\* Create answered 200 with its record, and List answers that sequence.
C5_InsertionOrder ==
    pure =>
        /\ employees_db = created
        /\ response.op = "create" =>
              /\ response.status = 200
              /\ response.body = <<created[Len(created)]>>
              /\ response.body = response.req
        /\ response.op = "list" => response.body = created

C5_Witness ==
    /\ pure
    /\ Len(created) >= 2
    /\ response.op = "list"

\* C6: a Get that directly follows a successful Delete of the same id answers 404.
C6_DeleteThenGet ==
    [][(/\ response.op = "delete" /\ response.status = 200
        /\ response'.op = "get" /\ response'.emp_id = response.emp_id) =>
          response'.status = 404]_vars

\* C7: an Update of an id that is present answers 200 with the given record,
\* puts that record at the first position that carried the id (whatever the
\* record's own id), and leaves the length and every other position unchanged.
C7_UpdateFrame ==
    [][(response'.op = "update" /\ response'.emp_id \in IdsOf(employees_db)) =>
          /\ response'.status = 200
          /\ response'.body = response'.req
          /\ Len(employees_db') = Len(employees_db)
          /\ \E i \in 1..Len(employees_db) :
                /\ employees_db[i].id = response'.emp_id
                /\ \A j \in 1..(i-1) : employees_db[j].id # response'.emp_id
                /\ employees_db'[i] = response'.req[1]
                /\ \A j \in 1..Len(employees_db) : j # i => employees_db'[j] = employees_db[j]]_vars

C7_Witness ==
    /\ response.op = "update" /\ response.status = 200
    /\ response.req[1].id # response.emp_id
    /\ Len(employees_db) >= 2
    /\ employees_db[2] = response.req[1]

\* C8: a Delete of an id that is present answers 200 with the confirmation,
\* removes exactly one record, one that carried the id, keeps the others in
\* their order, and rewrites the document with the remaining records.
C8_DeleteEffect ==
    [][(response'.op = "delete" /\ response'.emp_id \in IdsOf(employees_db)) =>
          /\ response'.status = 200
          /\ response'.detail = "Employee deleted successfully"
          /\ Len(employees_db') = Len(employees_db) - 1
          /\ \E i \in 1..Len(employees_db) :
                /\ employees_db[i].id = response'.emp_id
                /\ \A j \in 1..(i-1) : employees_db'[j] = employees_db[j]
                /\ \A j \in i..Len(employees_db') : employees_db'[j] = employees_db[j+1]
          /\ saved'
          /\ disk' = [exists |-> TRUE, data |-> [i \in 1..Len(employees_db') |-> EmpDict(employees_db'[i])]]]_vars

C8_Witness ==
    /\ response.op = "delete" /\ response.status = 200
    /\ Len(employees_db) >= 2
    /\ response.emp_id \in IdsOf(employees_db)

\* Both add_employee calls have answered 200 for the same id and the list
\* holds two records with that id.
RaceState ==
    /\ \A t \in Threads : th[t].pc = "idle" /\ th[t].status = 200
    /\ th[1].emp[1].id = th[2].emp[1].id
    /\ Cardinality({i \in 1..Len(employees_db) : employees_db[i].id = th[1].emp[1].id}) >= 2

\* C9: with one operation run to completion before the next begins, two Create
\* calls never both succeed for the same id and the ids stay distinct; with two
\* workers interleaving check / append / persist that state is reached
\* (C9_Witness).
C9_SerialNoRace == workers = 1 => (~RaceState /\ UniqueIds(employees_db))

C9_Witness == workers = 2 /\ RaceState

\* C10: at every start the list is what load_employees reads: empty, with no
\* document created, when there is none, and the document's records in order
\* otherwise; a document first appears only by a successful mutation; and a
\* restart leaves the list as it was.
C10_StartupLoad ==
    /\ [](response.op = "start" =>
            /\ ~disk.exists => employees_db = <<>>
            /\ disk.exists =>
                  /\ Len(employees_db) = Len(disk.data)
                  /\ \A i \in 1..Len(disk.data) :
                        /\ employees_db[i].id = Member(disk.data[i], "id").num
                        /\ employees_db[i].name = Member(disk.data[i], "name").str)
    /\ [][/\ (~disk.exists /\ disk'.exists) =>
                (response'.op \in Mutations /\ response'.status = 200)
          /\ response'.op = "start" => (employees_db' = employees_db /\ disk' = disk)]_vars

C10_Witness ==
    /\ response.op = "start"
    /\ everMutated
    /\ Len(employees_db) >= 2

\* C11: List answers 200 with the whole list in its current order; Get answers
\* 200 with a record of the list whose id is the requested id when one exists,
\* and 404 otherwise; neither changes the list, the document, or calls
\* save_employees.
C11_ReadsPure ==
    [][(response'.op \in {"list", "get"}) =>
          /\ employees_db' = employees_db
          /\ disk' = disk
          /\ ~saved'
          /\ response'.op = "list" =>
                (response'.status = 200 /\ response'.body = employees_db)
          /\ (response'.op = "get" /\ response'.emp_id \in IdsOf(employees_db)) =>
                /\ response'.status = 200
                /\ Len(response'.body) = 1
                /\ response'.body[1].id = response'.emp_id
                /\ \E i \in 1..Len(employees_db) : employees_db[i] = response'.body[1]
          /\ (response'.op = "get" /\ response'.emp_id \notin IdsOf(employees_db)) =>
                (response'.status = 404 /\ response'.body = <<>>)]_vars

C11_Witness ==
    /\ response.op = "get" /\ response.status = 200
    /\ Len(employees_db) >= 2
    /\ employees_db[1].id # response.emp_id
    /\ disk.exists

\* C12: when a Create, Update or Delete ends, either it answered 200 and the
\* list and the document both hold its result, or it did not and the list and
\* the document are as they were before it; in particular a failed rewrite of
\* the document leaves the list unchanged.
C12_Atomic ==
    [][(response'.op \in Mutations) =>
          \/ /\ response'.status = 200
             /\ ~torn'
             /\ disk'.exists
             /\ load_employees(disk') = employees_db'
          \/ /\ response'.status # 200
             /\ employees_db' = employees_db
             /\ disk' = disk
             /\ torn' = torn]_vars

\* C13: a token made at time t carries exp = t + ACCESS_TOKEN_EXPIRE_MINUTES
\* (30 minutes); verify_token returns its sub before t + 30 minutes and
\* answers 401 "Invalid token" after.
C13_TokenLifetime ==
    token.made =>
        /\ token.exp = token.issued + ACCESS_TOKEN_EXPIRE_MINUTES
        /\ (verified.status # 0 /\ token.hasSub
              /\ clock < token.issued + ACCESS_TOKEN_EXPIRE_MINUTES) =>
              (verified.status = 200 /\ verified.username = "johndoe")
        /\ (verified.status # 0 /\ clock > token.issued + ACCESS_TOKEN_EXPIRE_MINUTES) =>
              (verified.status = 401 /\ verified.detail = "Invalid token")

====
